---- MODULE Spec2Model ----
(***************************************************************************)
(* sqlwire: binding of positional placeholders ($1, $2, ...) in a parsed   *)
(* SQL statement tree to the values of a ParameterSet.                     *)
(*                                                                         *)
(* Every tree node (Value, Expr, SelectItem, SetExpr, Query, Statement) is *)
(* a record [k, a, c]: k the variant name, a the scalar payload (a         *)
(* sequence of strings; texts that the code parses are kept as sequences   *)
(* of one-character strings), c the sequence of child nodes in the order   *)
(* of the fields of the sqlparser type.  Option::None is the node None, a  *)
(* Vec field that has siblings is the node Vec.                            *)
(***************************************************************************)
EXTENDS Integers, Sequences, FiniteSets, TLC

VARIABLES values, stmts, hist

vars == <<values, stmts, hist>>

\* ------------------------------------------------------------------ bounds

\* Largest number of values added to one ParameterSet.
MaxParams == 2
\* Largest number of statements in one batch (Vec<Statement>).
MaxStmts == 3
\* Largest number of resolve calls in one run.
MaxCalls == 2
\* Longest placeholder text, in characters, of the placeholder specification.
MaxTextLen == 3
\* Longest Array / Dict of the value specification.
MaxElems == 2

\* ------------------------------------------------------------------- nodes

N(k, a, c) == [k |-> k, a |-> a, c |-> c]

Leaf(k, a) == N(k, a, <<>>)

None == Leaf("None", <<>>)

Vec(xs) == N("Vec", <<>>, xs)

\* ------------------------------------------------------------ value.rs

VBool(b) == Leaf("Bool", <<b>>)
VNumber(n) == Leaf("Number", n)
VString(s) == Leaf("String", s)
VTypedString(typ, s) == Leaf("TypedString", <<typ>> \o s)
VArray(vs) == N("Array", <<>>, vs)
VPair(key, val) == N("Pair", <<>>, <<key, val>>)
VDict(pairs) == N("Dict", <<>>, pairs)
VNull == Leaf("Null", <<>>)

\* A data_type that forgets the tag altogether.
DataTypeAllUnspecified(typ) == "Unspecified"

\* value.rs 23-26: the data_type of a TypedString literal.
DataTypeOf(typ) ==
    IF typ \in {"datetime", "date"} THEN "Date" ELSE "Unspecified"

RECURSIVE to_expression(_), to_exprs(_), to_entries(_)
\* value.rs 16-49: impl From<Value> for Expr.
to_expression(v) ==
    CASE v.k = "Bool" -> Leaf("Boolean", v.a)
      [] v.k = "Number" -> Leaf("Number", v.a \o <<"false">>)
      [] v.k = "String" -> Leaf("SingleQuotedString", v.a)
      [] v.k = "TypedString" ->
            Leaf("TypedString", <<DataTypeOf(Head(v.a))>> \o Tail(v.a))
      [] v.k = "Array" ->
            N("Array", <<"false">>, to_exprs(v.c))
      [] v.k = "Dict" -> N("Map", <<>>, to_entries(v.c))
      [] v.k = "Null" -> Leaf("Null", <<>>)

\* value.rs 30-32: array.drain(..).map(|elem| elem.into()).collect().
to_exprs(vs) ==
    IF vs = <<>> THEN <<>>
    ELSE <<to_expression(Head(vs))>> \o to_exprs(Tail(vs))

\* value.rs 37-43: pairs.drain(..).map(|(k, v)| MapEntry {..}).collect().
to_entries(pairs) ==
    IF pairs = <<>> THEN <<>>
    ELSE <<N("MapEntry", <<>>, <<to_expression(Head(pairs).c[1]),
                                 to_expression(Head(pairs).c[2])>>)>>
         \o to_entries(Tail(pairs))

\* ------------------------------------------------------------ result.rs

\* R = Result<(), Error>; a panic (the process aborts) is the third outcome.
OkR == [tag |-> "Ok", label |-> <<>>]
Notfound(label) == [tag |-> "Notfound", label |-> label]
PanicR == [tag |-> "Panic", label |-> <<>>]

\* ------------------------------------------------- lib.rs: ParameterSet

\* lib.rs 28-32: ParameterSet::add, the new contents of values.
add(vals, v) == Append(vals, v)

DigitChars == <<"0", "1", "2", "3", "4", "5", "6", "7", "8", "9">>

IsDigit(ch) == \E d \in 1..10 : DigitChars[d] = ch

DigitVal(ch) == (CHOOSE d \in 1..10 : DigitChars[d] = ch) - 1

RECURSIVE Display(_)
\* The decimal text of a usize, as "{}" formats it.
Display(i) ==
    IF i < 10 THEN <<DigitChars[i + 1]>>
    ELSE Display(i \div 10) \o <<DigitChars[(i % 10) + 1]>>

\* A lookup that takes the index as a storage position (0-based).
GetZeroBased(vals, i) ==
    IF i >= 0 /\ i < Len(vals)
    THEN [v |-> vals[i + 1], e |-> OkR]
    ELSE [v |-> VNull, e |-> Notfound(<<"$">> \o Display(i))]

\* lib.rs 36-44: Parameters::get for ParameterSet.  Rv is modelled as the
\* pair of the value (meaningful when e is Ok) and the outcome e.
get(vals, i) ==
    IF i > 0 /\ i <= Len(vals)
    THEN [v |-> vals[i], e |-> OkR]
    ELSE [v |-> VNull, e |-> Notfound(<<"$">> \o Display(i))]

\* Bytes of the UTF-8 encoding of a character; "U+00E9" is the one character
\* outside ASCII of the model.
ByteLen(ch) == IF ch = "U+00E9" THEN 2 ELSE 1

\* lib.rs 48: p.as_bytes()[1..] panics on an empty text, and
\* String::from_utf8(..).unwrap() panics when the first byte dropped leaves
\* the continuation byte of a multi-byte first character.
SlicePanics(p) == p = <<>> \/ ByteLen(Head(p)) > 1

RECURSIVE DecimalValue(_)
\* The value of a sequence of digits, most significant first.
DecimalValue(ds) ==
    IF ds = <<>> THEN 0
    ELSE DecimalValue(SubSeq(ds, 1, Len(ds) - 1)) * 10 + DigitVal(ds[Len(ds)])

\* str::parse::<usize>: an optional leading "+" (never "-" for an unsigned
\* type), then one or more decimal digits; anything else is an Err,
\* returned here as -1.  The texts of the model are shorter than the 20
\* digits of usize::MAX, so the overflow Err of parse never arises.
ParseUsize(s) ==
    LET digits == IF s # <<>> /\ Head(s) = "+" THEN Tail(s) ELSE s
    IN  IF digits # <<>> /\ \A j \in 1..Len(digits) : IsDigit(digits[j])
        THEN DecimalValue(digits)
        ELSE -1

\* lib.rs 47-50: placeholder_to_usize, for a text on which line 48 does not
\* panic: unwrap_or(0) of the parse of the text after its first byte.
placeholder_to_usize(p) ==
    LET r == ParseUsize(Tail(p))
    IN  IF r < 0 THEN 0 ELSE r

\* lib.rs 52-55: resolve.
resolve(vals, p) ==
    IF SlicePanics(p) THEN [v |-> VNull, e |-> PanicR]
    ELSE get(vals, placeholder_to_usize(p))

\* ------------------------------------------------- lib.rs: the resolvers

\* A resolver takes &mut node and returns R: it is modelled as the pair of
\* the node as the call leaves it and the outcome.
Start(x) == [x |-> x, e |-> OkR]

\* "resolve_..(ps, child)?" on the i-th child of r.x: skipped once an earlier
\* step has returned (the ? operator), else the child is what the call left.
OnChild(r, i, rc) ==
    IF r.e # OkR THEN r
    ELSE [x |-> [r.x EXCEPT !.c[i] = rc.x], e |-> rc.e]

\* "if let Some(child) = .. { resolve_..(ps, child)?; }".
OnSome(r, i, rc) ==
    IF r.x.c[i].k = "None" THEN r ELSE OnChild(r, i, rc)

\* "if let GroupByExpr::Expressions(exprs, _) = .. { for .. ? }".
OnExpressions(r, i, rc) ==
    IF r.x.c[i].k = "Expressions" THEN OnChild(r, i, rc) ELSE r

\* The outcome of a loop over a Vec that is the whole child list of x.
OnAll(x, rs) == [x |-> [x EXCEPT !.c = rs.x], e |-> rs.e]

\* The outcome of a loop over a Vec held in a Vec node.
InVec(rs) == [x |-> Vec(rs.x), e |-> rs.e]

\* A placeholder arm that looks the value up and forgets to store it.
PlaceholderArmNoStore(vals, x) ==
    [x |-> x, e |-> resolve(vals, x.a).e]

\* A placeholder arm that substitutes the text of a bound string a second
\* time when that text is itself a placeholder with a bound value.
PlaceholderArmAgain(vals, x) ==
    LET rv == resolve(vals, x.a)
        again == resolve(vals, rv.v.a)
    IN  IF rv.e # OkR THEN [x |-> x, e |-> rv.e]
        ELSE IF rv.v.k = "String" /\ again.e = OkR
             THEN [x |-> to_expression(again.v), e |-> OkR]
             ELSE [x |-> to_expression(rv.v), e |-> OkR]

\* lib.rs 59-62: the Expr::Value(AstValue::Placeholder(p)) arm.
PlaceholderArm(vals, x) ==
    LET rv == resolve(vals, x.a)
    IN  IF rv.e # OkR THEN [x |-> x, e |-> rv.e]
        ELSE [x |-> to_expression(rv.v), e |-> OkR]

RECURSIVE resolve_parameters_expr(_, _), resolve_parameters_query(_, _),
          resolve_each(_, _, _), resolve_items(_, _, _), resolve_rows(_, _, _),
          resolve_assignments(_, _, _)

\* One turn of a loop over a Vec through iter_mut(): the i-th element is
\* what the call r left, the outcome is the outcome of r.
Store(xs, i, r) == [x |-> [xs EXCEPT ![i] = r.x], e |-> r.e]

\* The ? of a loop body: the loop returns the error of the turn rs, else it
\* goes on with the i-th element.
NextExpr(vals, rs, i) ==
    IF rs.e # OkR THEN rs ELSE resolve_each(vals, rs.x, i)

NextItem(vals, rs, i) ==
    IF rs.e # OkR THEN rs ELSE resolve_items(vals, rs.x, i)

NextRow(vals, rs, i) ==
    IF rs.e # OkR THEN rs ELSE resolve_rows(vals, rs.x, i)

NextAssignment(vals, rs, i) ==
    IF rs.e # OkR THEN rs ELSE resolve_assignments(vals, rs.x, i)

\* A loop that returns after its first element.
ResolveFirstOnly(vals, xs, i) ==
    IF i > Len(xs) THEN [x |-> xs, e |-> OkR]
    ELSE Store(xs, i, resolve_parameters_expr(vals, xs[i]))

\* "for x in list.iter_mut() { resolve_parameters_expr(ps, x)?; }" from the
\* i-th element on (lib.rs 78-80, 162-167, 178-180, 209-211, 219-221).
resolve_each(vals, xs, i) ==
    IF i > Len(xs) THEN [x |-> xs, e |-> OkR]
    ELSE NextExpr(vals, Store(xs, i, resolve_parameters_expr(vals, xs[i])), i + 1)

\* lib.rs 57-185: resolve_parameters_expr.
resolve_parameters_expr(vals, x) ==
    CASE x.k = "Placeholder" -> PlaceholderArm(vals, x)
      [] x.k \in {"IsNull", "IsNotNull", "UnaryOp", "Nested", "Interval"} ->
            OnChild(Start(x), 1, resolve_parameters_expr(vals, x.c[1]))
      [] x.k = "InList" ->
            LET r1 == OnChild(Start(x), 1, resolve_parameters_expr(vals, x.c[1]))
            IN  OnChild(r1, 2, InVec(resolve_each(vals, x.c[2].c, 1)))
      [] x.k = "InSubquery" ->
            LET r1 == OnChild(Start(x), 1, resolve_parameters_expr(vals, x.c[1]))
            IN  OnChild(r1, 2, resolve_parameters_query(vals, x.c[2]))
      [] x.k = "Between" ->
            LET r1 == OnChild(Start(x), 1, resolve_parameters_expr(vals, x.c[1]))
                r2 == OnChild(r1, 2, resolve_parameters_expr(vals, x.c[2]))
            IN  OnChild(r2, 3, resolve_parameters_expr(vals, x.c[3]))
      [] x.k \in {"Like", "ILike", "BinaryOp"} ->
            LET r1 == OnChild(Start(x), 1, resolve_parameters_expr(vals, x.c[1]))
            IN  OnChild(r1, 2, resolve_parameters_expr(vals, x.c[2]))
      [] x.k \in {"Exists", "Subquery"} ->
            OnChild(Start(x), 1, resolve_parameters_query(vals, x.c[1]))
      [] x.k = "Case" ->
            LET r1 == OnSome(Start(x), 1, resolve_parameters_expr(vals, x.c[1]))
                r2 == OnChild(r1, 2, InVec(resolve_each(vals, x.c[2].c, 1)))
                r3 == OnChild(r2, 3, InVec(resolve_each(vals, x.c[3].c, 1)))
            IN  OnSome(r3, 4, resolve_parameters_expr(vals, x.c[4]))
      [] x.k = "Array" -> OnAll(x, resolve_each(vals, x.c, 1))
      [] OTHER -> Start(x)

\* lib.rs 195-207: the loop over s.projection.
resolve_items(vals, items, i) ==
    IF i > Len(items) THEN [x |-> items, e |-> OkR]
    ELSE IF items[i].k \in {"UnnamedExpr", "ExprWithAlias"}
         THEN NextItem(vals,
                       Store(items, i,
                             OnChild(Start(items[i]), 1,
                                     resolve_parameters_expr(vals, items[i].c[1]))),
                       i + 1)
         ELSE resolve_items(vals, items, i + 1)

\* lib.rs 218-222: the loop over values.rows.
resolve_rows(vals, rows, i) ==
    IF i > Len(rows) THEN [x |-> rows, e |-> OkR]
    ELSE NextRow(vals, Store(rows, i, InVec(resolve_each(vals, rows[i].c, 1))), i + 1)

\* A select arm that goes through the fields in the order the Select
\* struct declares them: projection, selection, group_by, having.
SelectArmDeclOrder(vals, s) ==
    LET r1 == OnChild(Start(s), 1, InVec(resolve_items(vals, s.c[1].c, 1)))
        r2 == OnSome(r1, 2, resolve_parameters_expr(vals, s.c[2]))
        r3 == OnExpressions(r2, 3, OnAll(s.c[3], resolve_each(vals, s.c[3].c, 1)))
    IN  OnSome(r3, 4, resolve_parameters_expr(vals, s.c[4]))

\* lib.rs 190-216: the SetExpr::Select arm.  The children of a Select node
\* are <<projection, selection, group_by, having>>.
SelectArm(vals, s) ==
    LET r1 == OnSome(Start(s), 2, resolve_parameters_expr(vals, s.c[2]))
        r2 == OnChild(r1, 1, InVec(resolve_items(vals, s.c[1].c, 1)))
        r3 == OnExpressions(r2, 3, OnAll(s.c[3], resolve_each(vals, s.c[3].c, 1)))
    IN  OnSome(r3, 4, resolve_parameters_expr(vals, s.c[4]))

\* lib.rs 187-229: resolve_parameters_query; todo!() panics.
resolve_parameters_query(vals, q) ==
    LET body == q.c[1]
    IN  CASE body.k = "Select" -> OnChild(Start(q), 1, SelectArm(vals, body))
          [] body.k = "Values" ->
                OnChild(Start(q), 1, OnAll(body, resolve_rows(vals, body.c, 1)))
          [] OTHER -> [x |-> q, e |-> PanicR]

\* lib.rs 248-250: the loop over assignments.
resolve_assignments(vals, asg, i) ==
    IF i > Len(asg) THEN [x |-> asg, e |-> OkR]
    ELSE NextAssignment(vals,
                        Store(asg, i,
                              OnChild(Start(asg[i]), 1,
                                      resolve_parameters_expr(vals, asg[i].c[1]))),
                        i + 1)

\* An update arm that does not ask for a WHERE clause: the assignments
\* always, the predicate when there is one.
UpdateArmAlways(vals, s) ==
    LET r1 == OnChild(Start(s), 1,
                      InVec(resolve_assignments(vals, s.c[1].c, 1)))
    IN  OnSome(r1, 2, resolve_parameters_expr(vals, s.c[2]))

\* lib.rs 241-252: the Statement::Update arm, which matches only
\* selection: Some(expr); any other update takes the default arm (264).
\* The children of an Update node are <<assignments, selection>>; an
\* assignment is a node Assignment with the children <<value>>.
UpdateArm(vals, s) ==
    IF s.c[2].k = "None" THEN Start(s)
    ELSE LET r1 == OnChild(Start(s), 1,
                           InVec(resolve_assignments(vals, s.c[1].c, 1)))
         IN  OnChild(r1, 2, resolve_parameters_expr(vals, s.c[2]))

\* lib.rs 231-267: resolve_statement.  Statement::Query is the node
\* QueryStatement; Insert, Delete and CreateTable have the one child
\* source, selection and query.
resolve_statement(vals, s) ==
    CASE s.k \in {"QueryStatement", "Insert", "CreateTable"} ->
            OnSome(Start(s), 1, resolve_parameters_query(vals, s.c[1]))
      [] s.k = "Update" -> UpdateArm(vals, s)
      [] s.k = "Delete" ->
            OnSome(Start(s), 1, resolve_parameters_expr(vals, s.c[1]))
      [] OTHER -> Start(s)

\* A driver that goes on to the next statement after an error.
NeverBreak(e) == FALSE

\* lib.rs 271-274: the closure's ControlFlow: Break on Err, and a panic
\* unwinds through the traversal.
Break(e) == e # OkR

RECURSIVE visit_statement(_, _), visit_statements_mut(_, _, _)

\* lib.rs 271-274: the closure given to visit_statements_mut, on the
\* statement r.x unless the traversal r has broken already.
closure(vals, r) ==
    IF Break(r.e) THEN r ELSE resolve_statement(vals, r.x)

\* The traversal of the Vec stops at a Break or after the last statement,
\* else it goes on with the i-th.
NextVisit(vals, rs, i) ==
    IF Break(rs.e) \/ i > Len(rs.x) THEN rs
    ELSE visit_statements_mut(vals, rs.x, i)

\* sqlparser's VisitMut for Statement under visit_statements_mut (called at
\* lib.rs 271): the statements held inside a statement (the node Explain
\* holds one) are visited, then the closure runs on the statement itself.
\* The closure does nothing on a statement that holds statements, so the
\* result is the same if it runs before them.
visit_statement(vals, s) ==
    closure(vals, IF s.k = "Explain"
                  THEN OnChild(Start(s), 1, visit_statement(vals, s.c[1]))
                  ELSE Start(s))

\* VisitMut for Vec<Statement>: each statement in turn from the i-th on,
\* until the closure breaks.
visit_statements_mut(vals, ss, i) ==
    IF i > Len(ss) THEN [x |-> ss, e |-> OkR]
    ELSE NextVisit(vals, Store(ss, i, visit_statement(vals, ss[i])), i + 1)

\* lib.rs 269-279: resolve_all.
resolve_all(vals, ss) == visit_statements_mut(vals, ss, 1)

\* ------------------------------------------------------- the trees parsed

P(text) == Leaf("Placeholder", text)
P0 == P(<<"$", "0">>)
P1 == P(<<"$", "1">>)
P2 == P(<<"$", "2">>)
P3 == P(<<"$", "3">>)
P01 == P(<<"$", "0", "1">>)
Px == P(<<"$", "x">>)

Id(name) == Leaf("Identifier", <<name>>)
Lit(n) == Leaf("Number", <<n, "false">>)
Unary(x) == N("UnaryOp", <<"-">>, <<x>>)
Binary(l, op, r) == N("BinaryOp", <<op>>, <<l, r>>)
Nested(x) == N("Nested", <<>>, <<x>>)
IsNull(x) == N("IsNull", <<>>, <<x>>)
IsNotNull(x) == N("IsNotNull", <<>>, <<x>>)
Like(x, pat) == N("Like", <<>>, <<x, pat>>)
ILike(x, pat) == N("ILike", <<>>, <<x, pat>>)
Interval(x) == N("Interval", <<>>, <<x>>)
InList(x, list) == N("InList", <<>>, <<x, Vec(list)>>)
InSubquery(x, q) == N("InSubquery", <<>>, <<x, q>>)
Between(x, low, high) == N("Between", <<>>, <<x, low, high>>)
Exists(q) == N("Exists", <<>>, <<q>>)
Subquery(q) == N("Subquery", <<>>, <<q>>)
Case(operand, conds, results, else_result) ==
    N("Case", <<>>, <<operand, Vec(conds), Vec(results), else_result>>)
ArrayLit(xs) == N("Array", <<"true">>, xs)
Function(name, args) == N("Function", <<name>>, args)

Item(x) == N("UnnamedExpr", <<>>, <<x>>)
Alias(x, alias) == N("ExprWithAlias", <<alias>>, <<x>>)
Wildcard == Leaf("QualifiedWildcard", <<"t">>)
GroupBy(xs) == N("Expressions", <<>>, xs)
Select(projection, selection, group_by, having) ==
    N("Query", <<>>,
      <<N("Select", <<>>, <<Vec(projection), selection, GroupBy(group_by), having>>)>>)
Values(rows) ==
    N("Query", <<>>,
      <<N("Values", <<>>, [i \in 1..Len(rows) |-> Vec(rows[i])])>>)
Union(l, r) == N("Query", <<>>, <<N("SetOperation", <<"UNION">>, <<l.c[1], r.c[1]>>)>>)

QueryStatement(q) == N("QueryStatement", <<>>, <<q>>)
Insert(source) == N("Insert", <<>>, <<source>>)
Assignment(col, x) == N("Assignment", <<col>>, <<x>>)
Update(assignments, selection) ==
    N("Update", <<>>, <<Vec(assignments), selection>>)
Delete(selection) == N("Delete", <<>>, <<selection>>)
CreateTable(query) == N("CreateTable", <<>>, <<query>>)
Explain(s) == N("Explain", <<>>, <<s>>)
Drop == Leaf("Drop", <<"test">>)

\* The statements of tests::sql_parsing_resolving (lib.rs 288-290).
TestCreate == CreateTable(None)
TestInsert == Insert(Values(<<<<P1, P2, P3>>>>))
TestSelect == QueryStatement(Select(<<Alias(P1, "px"), Wildcard>>, None, <<>>, None))

\* select $1 from t where y in (
\*   select case when x between $1 and $2 then array[$2, ($1)] else $1 end
\*     from u where z in ($1, $2))
DeepSelect ==
    QueryStatement(Select(
        <<Item(P1)>>,
        InSubquery(Id("y"),
            Select(<<Item(Case(None,
                               <<Between(Id("x"), P1, P2)>>,
                               <<ArrayLit(<<P2, Nested(P1)>>)>>,
                               P1))>>,
                   InList(Id("z"), <<P1, P2>>), <<>>, None)),
        <<>>, None))

\* select $2, * from t where $1 group by $3 having $0
OrderSelect ==
    QueryStatement(Select(<<Item(P2), Wildcard>>, P1, <<P3>>, P0))

\* select case $2 when $1 then $3 when $0 then $1 else $2 end
OrderCase ==
    QueryStatement(Select(
        <<Item(Case(P2, <<P1, P0>>, <<P3, P1>>, P2))>>, None, <<>>, None))

\* delete from t where $2 between $1 and $3
OrderBetween == Delete(Between(P2, P1, P3))

\* delete from t where $2 in ($1, $3, $1)
OrderInList == Delete(InList(P2, <<P1, P3, P1>>))

\* insert into t values ($2, $1), ($3, $1)
OrderValues == Insert(Values(<<<<P2, P1>>, <<P3, P1>>>>))

\* select 1 from t where a like $1 and b ilike $2 and -$1 is null
\*   and interval $2 is not null and (select $1) = 1 and exists (select $2)
ShapesSelect ==
    QueryStatement(Select(
        <<Item(Lit("1"))>>,
        Binary(Binary(Like(Id("a"), P1), "AND", ILike(Id("b"), P2)), "AND",
               Binary(Binary(IsNull(Unary(P1)), "AND", IsNotNull(Interval(P2))),
                      "AND",
                      Binary(Binary(Subquery(Select(<<Item(P1)>>, None, <<>>, None)),
                                    "=", Lit("1")),
                             "AND",
                             Exists(Select(<<Item(P2)>>, None, <<>>, None))))),
        <<>>, None))

UpdateNoWhere == Update(<<Assignment("a", P1), Assignment("b", P3)>>, None)
UpdateWhere ==
    Update(<<Assignment("a", P1), Assignment("b", P2)>>, Binary(Id("c"), "=", P1))
UpdateWhereLast ==
    Update(<<Assignment("a", P1)>>, Binary(Id("c"), "=", P2))

\* select f($1) from t: a placeholder inside a shape the resolver skips
FunctionSelect ==
    QueryStatement(Select(<<Item(Function("f", <<P1>>))>>, None, <<>>, None))

\* explain select $1
ExplainSelect ==
    Explain(QueryStatement(Select(<<Item(P1)>>, None, <<>>, None)))

\* select $1 from t where exists (select 1 union select $2) having $2
UnionSelect ==
    QueryStatement(Select(
        <<Item(P1)>>,
        Exists(Union(Select(<<Item(Lit("1"))>>, None, <<>>, None),
                     Select(<<Item(P2)>>, None, <<>>, None))),
        <<>>, P2))

\* create table u as select $01, $x
CreateAs ==
    CreateTable(Select(<<Item(P01), Item(Px)>>, None, <<>>, None))

\* insert into t values ($1, $3)
InsertPartial == Insert(Values(<<<<P1, P3>>>>))

\* insert into t values ($1, $2)
InsertTwo == Insert(Values(<<<<P1, P2>>>>))

\* The statements a single resolve call is checked on.
Statements ==
    {TestCreate, TestInsert, TestSelect, DeepSelect, OrderSelect, OrderCase,
     OrderBetween, OrderInList, OrderValues, ShapesSelect, UpdateNoWhere,
     UpdateWhere, UpdateWhereLast, FunctionSelect, ExplainSelect, UnionSelect,
     CreateAs, InsertPartial, InsertTwo, Delete(None), Insert(None), Drop}

\* The statements of a batch.
Batch ==
    {TestCreate, InsertTwo, TestSelect, InsertPartial, UpdateNoWhere,
     ExplainSelect, UnionSelect}

\* The statements of a batch that is resolved again with other values.
RerunBatch == {InsertTwo, InsertPartial, UpdateNoWhere}

\* The values bound: 123 and the string "$1".
ParamValues == {VNumber(<<"1", "2", "3">>), VString(<<"$", "1">>)}

\* --------------------------------------------------------------- the calls

\* A resolve call as the caller sees it: the function called, the
\* statement it was called on (0: the whole Vec), the ParameterSet, the
\* Vec<Statement> before and after, and the outcome.
Call(op, i, vals, before, r) ==
    [op |-> op, i |-> i, ps |-> vals, before |-> before, after |-> r.x, e |-> r.e]

\* The call returns: the statements are as it left them, the ParameterSet
\* (borrowed as &dyn Parameters) is as it was.
Return(call) ==
    /\ stmts' = call.after
    /\ hist' = Append(hist, call)
    /\ UNCHANGED values

Init ==
    /\ values = <<>>
    /\ stmts = <<>>
    /\ hist = <<>>

\* ParameterSet::add.
Add(v) ==
    /\ Len(hist) < MaxCalls
    /\ Len(values) < MaxParams
    /\ values' = add(values, v)
    /\ UNCHANGED <<stmts, hist>>

\* ParameterSet::default(): the caller binds a new, empty set.
NewParameterSet ==
    /\ Len(hist) < MaxCalls
    /\ values # <<>>
    /\ values' = <<>>
    /\ UNCHANGED <<stmts, hist>>

\* The caller parses one more statement of the batch, before any call.
Parse(s) ==
    /\ hist = <<>>
    /\ Len(stmts) < MaxStmts
    /\ stmts' = Append(stmts, s)
    /\ UNCHANGED <<values, hist>>

\* resolve_all(&ps, &mut stmts).
ResolveAll ==
    /\ Len(hist) < MaxCalls
    /\ stmts # <<>>
    /\ Return(Call("resolve_all", 0, values, stmts, resolve_all(values, stmts)))

\* resolve_statement(&ps, &mut stmts[i]).
ResolveStatement(i) ==
    /\ Len(hist) < MaxCalls
    /\ i \in 1..Len(stmts)
    /\ Return(Call("resolve_statement", i, values, stmts,
                    Store(stmts, i, resolve_statement(values, stmts[i]))))

\* A batch: the ParameterSet is populated and the statements are parsed
\* before resolution begins; resolve_all may be called again on its result.
Next ==
    \/ \E v \in ParamValues : hist = <<>> /\ Add(v)
    \/ \E s \in Batch : Parse(s)
    \/ ResolveAll

Spec == Init /\ [][Next]_vars

\* A batch that is resolved again, with the same ParameterSet or with
\* another one.
NextRerun ==
    \/ \E v \in ParamValues : Add(v)
    \/ NewParameterSet
    \/ \E s \in RerunBatch : Parse(s)
    \/ ResolveAll

SpecRerun == Init /\ [][NextRerun]_vars

\* One statement, resolved by either entry point.
InitStatement ==
    /\ values = <<>>
    /\ stmts \in {<<s>> : s \in Statements}
    /\ hist = <<>>

NextStatement ==
    \/ \E v \in ParamValues : Add(v)
    \/ ResolveStatement(1)
    \/ ResolveAll

SpecStatement == InitStatement /\ [][NextStatement]_vars

\* The sequences over S of length n at most.
SeqsUpTo(S, n) == UNION {[1..m -> S] : m \in 0..n}

\* -------------------------------------------------- the conversion alone

TypedX(typ) == VTypedString(typ, <<"x">>)

Scalars ==
    {VBool("true"), VNumber(<<"1">>), VString(<<"x">>), TypedX("date"),
     TypedX("datetime"), TypedX("time"), TypedX("uuid"), VNull}

\* The elements of an array: the scalars and one level of nesting.
Elems == Scalars \cup {VArray(<<TypedX("date")>>), VArray(<<TypedX("datetime")>>)}

Pairs ==
    {VPair(key, val) : key \in {VString(<<"x">>), TypedX("date")},
                       val \in {VNull, TypedX("datetime"), VArray(<<TypedX("time")>>)}}

AllValues ==
    Scalars
    \cup {VArray(vs) : vs \in SeqsUpTo(Elems, MaxElems)}
    \cup {VDict(ps) : ps \in SeqsUpTo(Pairs, MaxElems)}

InitValue ==
    /\ values \in {<<v>> : v \in AllValues}
    /\ stmts = <<>>
    /\ hist = <<>>

\* let x: Expr = v.into() on the one value held.
Into ==
    /\ stmts = <<>>
    /\ stmts' = <<to_expression(values[1])>>
    /\ UNCHANGED <<values, hist>>

NextValue == Into

SpecValue == InitValue /\ [][NextValue]_vars

\* ------------------------------------------------- one placeholder text

Alphabet == {"$", "+", "-", "0", "1", "2", "x", "U+00E9"}

Texts == SeqsUpTo(Alphabet, MaxTextLen)

\* select <placeholder> from t
SelectOf(text) == QueryStatement(Select(<<Item(P(text))>>, None, <<>>, None))

InitPlaceholder ==
    /\ values = <<>>
    /\ stmts \in {<<SelectOf(text)>> : text \in Texts}
    /\ hist = <<>>

SpecPlaceholder == InitPlaceholder /\ [][NextStatement]_vars

\* ------------------------------------------- what the claims speak about

Range(seq) == {seq[j] : j \in 1..Len(seq)}

Upto(n) == [j \in 1..n |-> j]

\* The children of a node that the specification says resolution descends
\* into, in the order it says (sections 4.3 to 4.6): a path of such
\* children leads to a placeholder that is reachable through the handled
\* shapes.
Visited(x) ==
    CASE x.k \in {"IsNull", "IsNotNull", "UnaryOp", "Nested", "Interval",
                  "Exists", "Subquery", "UnnamedExpr", "ExprWithAlias",
                  "Assignment", "Query", "QueryStatement", "Insert", "Delete",
                  "CreateTable", "Explain"} -> <<1>>
      [] x.k \in {"InList", "InSubquery", "Like", "ILike", "BinaryOp"} -> <<1, 2>>
      [] x.k = "Between" -> <<1, 2, 3>>
      [] x.k = "Case" -> <<1, 2, 3, 4>>
      [] x.k \in {"Vec", "Array", "Expressions", "Values", "Batch"} -> Upto(Len(x.c))
      [] x.k = "Select" -> <<2, 1, 3, 4>>
      [] x.k = "Update" -> IF x.c[2].k = "None" THEN <<>> ELSE <<1, 2>>
      [] OTHER -> <<>>

Prefixed(i, paths) == [j \in 1..Len(paths) |-> <<i>> \o paths[j]]

RECURSIVE Sites(_), SitesFrom(_, _, _)
\* The paths of the reachable placeholders of x, in traversal order.
Sites(x) ==
    IF x.k = "Placeholder" THEN <<<<>>>> ELSE SitesFrom(x, Visited(x), 1)

SitesFrom(x, order, j) ==
    IF j > Len(order) THEN <<>>
    ELSE Prefixed(order[j], Sites(x.c[order[j]])) \o SitesFrom(x, order, j + 1)

RECURSIVE At(_, _)
\* The node of x at a path.
At(x, path) == IF path = <<>> THEN x ELSE At(x.c[Head(path)], Tail(path))

RECURSIVE HasPlaceholder(_)
\* A placeholder node anywhere in x.
HasPlaceholder(x) ==
    x.k = "Placeholder" \/ \E i \in 1..Len(x.c) : HasPlaceholder(x.c[i])

RECURSIVE SameExcept(_, _, _)
\* x and y are the same tree but for the subtrees at the paths.
SameExcept(x, y, paths) ==
    \/ <<>> \in paths
    \/ /\ x.k = y.k
       /\ x.a = y.a
       /\ Len(x.c) = Len(y.c)
       /\ \A i \in 1..Len(x.c) :
             SameExcept(x.c[i], y.c[i],
                        {Tail(q) : q \in {q \in paths : Head(q) = i}})

\* A Vec<Statement> as one tree.
Tree(ss) == N("Batch", <<>>, ss)

\* The sites of a call: those of every statement for resolve_all (the
\* traversal goes into the statement an EXPLAIN holds), those of the one
\* statement for resolve_statement (which does not).
CallSites(h) ==
    IF h.op = "resolve_all" THEN Sites(Tree(h.before))
    ELSE IF h.before[h.i].k = "Explain" THEN <<>>
    ELSE Prefixed(h.i, Sites(h.before[h.i]))

TextAt(h, site) == At(Tree(h.before), site).a
IndexAt(h, site) == placeholder_to_usize(TextAt(h, site))
Bound(h, site) == IndexAt(h, site) \in 1..Len(h.ps)
Literal(h, site) == to_expression(h.ps[IndexAt(h, site)])
Replaced(h, site) ==
    Bound(h, site) /\ At(Tree(h.after), site) = Literal(h, site)
Untouched(h, site) == At(Tree(h.after), site) = At(Tree(h.before), site)

\* The position in CallSites(h) of the first placeholder without a bound
\* value, 0 when there is none.
FirstUnbound(h) ==
    LET sites == CallSites(h)
        bad == {j \in 1..Len(sites) : ~Bound(h, sites[j])}
    IN  IF bad = {} THEN 0 ELSE CHOOSE j \in bad : \A k \in bad : j <= k

Calls == Range(hist)

\* ------------------------------------------------------------------ claims

\* C1: after a resolve call that returned Ok, every placeholder reachable
\* through the handled shapes had an index i in 1..N and stands replaced by
\* exactly to_expression of the i-th value added; the same index at several
\* sites gives the same literal at each.
C1_ResolvedByIndex ==
    \A h \in Calls :
        h.e = OkR =>
            \A site \in Range(CallSites(h)) : Replaced(h, site)

\* A successful call on the deeply nested select (placeholders under IN
\* (subquery), CASE, BETWEEN and an array literal; the parenthesised $1 of the
\* array is four expressions and thirteen nodes deep), with two different
\* values bound and $1 used at several sites.
C1_Witness ==
    \E h \in Calls :
        /\ h.e = OkR
        /\ h.before = <<DeepSelect>>
        /\ Len(h.ps) = 2 /\ h.ps[1] # h.ps[2]
        /\ \E s1, s2 \in Range(CallSites(h)) :
              /\ s1 # s2 /\ Len(s1) >= 13
              /\ IndexAt(h, s1) = 1 /\ IndexAt(h, s2) = 1
              /\ At(Tree(h.after), s1) = to_expression(h.ps[1])
              /\ At(Tree(h.after), s2) = to_expression(h.ps[1])

\* C8: a call that fails with NotFound returns the error of the first
\* placeholder without a bound value in traversal order; every placeholder
\* before it in that order stands replaced by its literal, and it and every
\* placeholder after it are as they were.
C8_PrefixMutation ==
    \A h \in Calls :
        h.e.tag = "Notfound" =>
            LET sites == CallSites(h)
                f == FirstUnbound(h)
            IN  /\ f # 0
                /\ h.e = resolve(h.ps, TextAt(h, sites[f])).e
                /\ \A j \in 1..Len(sites) :
                      IF j < f THEN Replaced(h, sites[j])
                      ELSE Untouched(h, sites[j])

\* A failed call on "select $2, * from t where $1 group by $3 having $0"
\* with two values bound: the WHERE and the projection placeholders are
\* replaced, the GROUP BY one fails, the HAVING one is never reached.
C8_Witness ==
    \E h \in Calls :
        /\ h.e.tag = "Notfound"
        /\ h.before = <<OrderSelect>>
        /\ FirstUnbound(h) = 3
        /\ Len(CallSites(h)) = 4
        /\ h.after # h.before

\* Every reachable placeholder of x has a bound value in ps.
AllBound(ps, x) ==
    \A site \in Range(Sites(x)) :
        placeholder_to_usize(At(x, site).a) \in 1..Len(ps)

\* C7: resolve_statement on an UPDATE without WHERE returns Ok and leaves
\* the statement as it was, whatever is bound; on an UPDATE with WHERE it
\* resolves the assignment values in order and then the predicate: an
\* assignment value is resolved when no earlier one failed, and is as it was
\* when an earlier one failed; the predicate is as it was when an assignment
\* failed.
C7_UpdateNeedsWhere ==
    \A h \in Calls :
        (h.op = "resolve_statement" /\ h.before[h.i].k = "Update"
            /\ h.e.tag # "Panic") =>
            LET b == h.before[h.i]
                a == h.after[h.i]
                asg == b.c[1].c
                ok(j) == AllBound(h.ps, asg[j].c[1])
            IN  IF b.c[2].k = "None" THEN h.e = OkR /\ h.after = h.before
                ELSE /\ \A j \in 1..Len(asg) :
                          /\ (\A k \in 1..j : ok(k)) =>
                                Sites(a.c[1].c[j]) = <<>>
                          /\ (\E k \in 1..(j - 1) : ~ok(k)) =>
                                a.c[1].c[j] = asg[j]
                     /\ (\E k \in 1..Len(asg) : ~ok(k)) =>
                          (a.c[2] = b.c[2] /\ h.e.tag = "Notfound")
                     /\ ((\A k \in 1..Len(asg) : ok(k)) /\ ~AllBound(h.ps, b.c[2])) =>
                          (h.e.tag = "Notfound" /\ Sites(a.c[2]) # <<>>)
                     /\ ((\A k \in 1..Len(asg) : ok(k)) /\ AllBound(h.ps, b.c[2])) =>
                          (h.e = OkR /\ Sites(a.c[2]) = <<>>)

\* resolve_statement on "update t set a = $1, b = $3" with $1 bound: Ok, and
\* both placeholders are still there.
C7_Witness ==
    \E h \in Calls :
        /\ h.op = "resolve_statement"
        /\ h.before = <<UpdateNoWhere>>
        /\ Len(h.ps) >= 1
        /\ h.e = OkR
        /\ h.after = h.before
        /\ HasPlaceholder(h.after[1])

\* C10 (the tree): a call keeps the number and the order of the statements
\* and changes nothing but reachable placeholder nodes, each of which is
\* either as it was or exactly the literal of its bound value (a bound
\* string "$1" stays the quoted string '$1').
C10_TreeFrame ==
    \A h \in Calls :
        h.e.tag # "Panic" =>
            /\ Len(h.after) = Len(h.before)
            /\ SameExcept(Tree(h.before), Tree(h.after), Range(CallSites(h)))
            /\ \A site \in Range(CallSites(h)) :
                  Untouched(h, site) \/ Replaced(h, site)

\* C10: the frame of a resolve call: the tree as above, and the
\* ParameterSet is what it was.
C10_Frame ==
    /\ []C10_TreeFrame
    /\ [][hist' # hist => (values' = values /\ stmts' = hist'[Len(hist')].after)]_vars

\* A call that put the string value "$1" in the place of $2.
C10_Witness ==
    \E h \in Calls : \E site \in Range(CallSites(h)) :
        /\ IndexAt(h, site) = 2
        /\ At(Tree(h.after), site) = Leaf("SingleQuotedString", <<"$", "1">>)
        /\ h.ps[1] = VNumber(<<"1", "2", "3">>)

\* C3 as claimed: after resolve_all returned Ok no placeholder node is left
\* anywhere in any statement.
C3_NoPlaceholderLeft ==
    \A h \in Calls :
        (h.op = "resolve_all" /\ h.e = OkR) =>
            \A i \in 1..Len(h.after) : ~HasPlaceholder(h.after[i])

\* C3 amended: after resolve_all returned Ok no placeholder is left at any
\* place reachable through the handled shapes.
C3_NoReachablePlaceholderLeft ==
    \A h \in Calls :
        (h.op = "resolve_all" /\ h.e = OkR) => Sites(Tree(h.after)) = <<>>

\* resolve_all returned Ok on a batch with reachable placeholders, all of
\* them replaced, and with a placeholder that is not reachable, still there.
C3_Witness ==
    \E h \in Calls :
        /\ h.op = "resolve_all" /\ h.e = OkR
        /\ Len(CallSites(h)) >= 3
        /\ HasPlaceholder(Tree(h.after))

RECURSIVE Subtrees(_)
\* The nodes of x.
Subtrees(x) == {x} \cup UNION {Subtrees(x.c[i]) : i \in 1..Len(x.c)}

\* A placeholder of x, anywhere in it, whose index has no bound value.
HasUnresolvable(ps, x) ==
    \E q \in {y \in Subtrees(x) : y.k = "Placeholder"} :
        placeholder_to_usize(q.a) \notin 1..Len(ps)

SecondFails(h) ==
    /\ h.op = "resolve_all" /\ Len(h.before) = 3
    /\ h.e.tag # "Panic"
    /\ AllBound(h.ps, h.before[1])
    /\ ~AllBound(h.ps, h.before[2])
    /\ AllBound(h.ps, h.before[3])

C6_Rerun ==
    \A j \in 1..(Len(hist) - 1) :
        LET h1 == hist[j]
            h2 == hist[j + 1]
        IN  (h1.op = "resolve_all" /\ h2.op = "resolve_all") =>
                /\ h2.before = h1.after
                /\ h1.e = OkR => (h2.e = OkR /\ h2.after = h2.before)
                /\ (h1.e.tag = "Notfound" /\ h2.ps = h1.ps) =>
                      (h2.e = h1.e /\ h2.after = h2.before)

\* A resolve_all that replaced placeholders and returned Ok, then a
\* resolve_all with an empty ParameterSet.
C6_Witness ==
    /\ Len(hist) = 2
    /\ hist[1].op = "resolve_all" /\ hist[1].e = OkR
    /\ hist[1].after # hist[1].before
    /\ hist[2].op = "resolve_all" /\ hist[2].ps = <<>>
    /\ hist[2].e = OkR

RECURSIVE SameUpToTag(_, _)
\* Two Values that differ at most in the type tags of their TypedStrings,
\* and there only between "date" and "datetime" or between two other tags.
SameUpToTag(v, w) ==
    /\ v.k = w.k
    /\ Len(v.c) = Len(w.c)
    /\ IF v.k = "TypedString"
       THEN /\ Tail(v.a) = Tail(w.a)
            /\ (Head(v.a) \in {"date", "datetime"}) = (Head(w.a) \in {"date", "datetime"})
       ELSE v.a = w.a
    /\ \A i \in 1..Len(v.c) : SameUpToTag(v.c[i], w.c[i])

\* C5 as claimed: the conversion gives different variants different node
\* shapes and different Values different nodes.
C5_Lossless ==
    stmts # <<>> =>
        \A w \in AllValues :
            /\ w.k # values[1].k => to_expression(w).k # stmts[1].k
            /\ to_expression(w) = stmts[1] => w = values[1]

\* C5 amended: the conversion gives different variants different node
\* shapes, and two Values convert to the same node exactly when they differ
\* at most in TypedString type tags that are both "date" or "datetime", or
\* both another tag.
C5_LosslessUpToTag ==
    stmts # <<>> =>
        \A w \in AllValues :
            /\ w.k # values[1].k => to_expression(w).k # stmts[1].k
            /\ to_expression(w) = stmts[1] <=> SameUpToTag(w, values[1])

\* The array [date 'x', [datetime 'x']] converted: another Value, with the
\* tags exchanged, gives the same node.
C5_Witness ==
    /\ values = <<VArray(<<TypedX("date"), VArray(<<TypedX("datetime")>>)>>)>>
    /\ stmts = <<N("Array", <<"false">>,
                   <<Leaf("TypedString", <<"Date", "x">>),
                     N("Array", <<"false">>, <<Leaf("TypedString", <<"Date", "x">>)>>)>>)>>
    /\ \E w \in AllValues : w # values[1] /\ to_expression(w) = stmts[1]

\* The place of the placeholder in <<SelectOf(text)>>.
TheSite == <<1, 1, 1, 1, 1, 1>>

PlainDigits(s) == s # <<>> /\ \A j \in 1..Len(s) : IsDigit(s[j])

\* C2 as claimed: a placeholder whose parsed index is 0 or greater than the
\* number of bound values fails with NotFound, and the label is the text of
\* the placeholder.
C2_LabelIsText ==
    \A h \in Calls :
        LET x == At(Tree(h.before), TheSite)
        IN  (/\ x.k = "Placeholder"
             /\ ~SlicePanics(x.a)
             /\ placeholder_to_usize(x.a) \notin 1..Len(h.ps)) =>
                h.e = Notfound(x.a)

\* C9 as claimed: a placeholder whose text after the first character is
\* empty or is not a plain sequence of decimal digits fails with NotFound,
\* whatever is bound: no bound value is substituted and nothing crashes.
C9_MalformedFails ==
    \A h \in Calls :
        LET x == At(Tree(h.before), TheSite)
        IN  (/\ x.k = "Placeholder"
             /\ x.a # <<>>
             /\ ~PlainDigits(Tail(x.a))) =>
                (h.e.tag = "Notfound" /\ h.after = h.before)

====
